---------------------------- MODULE Spec2Model ----------------------------
(***************************************************************************)
(* State-machine model of the ShillEarn Hub backend (Flask + SQLAlchemy):  *)
(* the wallet ledger, missions, withdrawals, payments / memberships and    *)
(* the referral graph.  Every table of src/backend/models.py that the      *)
(* handlers below write is a variable holding the sequence of its rows     *)
(* (the row id is the index).  One action models one HTTP handler, from    *)
(* its first line to db.session.commit().                                  *)
(*                                                                         *)
(* Time is counted in whole days: datetime.utcnow() is `now`, and          *)
(* db.func.date(x) == today compares day numbers.                          *)
(***************************************************************************)
EXTENDS Integers, Sequences, FiniteSets

(***************************************************************************)
(* Bounds of the model.                                                    *)
(***************************************************************************)
MaxUsers == 2
MaxChain == 4
MaxPayments == 2
MaxMissions == 3
MaxLedgerMissions == 1
MaxTxns == 3
MaxDay == 1
MaxRequests == 2
MaxProofMissions == 1

(***************************************************************************)
(* Program constants.                                                      *)
(***************************************************************************)
\* Membership.__init__: end_date = utcnow() + timedelta(days=365)
MembershipDays == 365

\* config.py REFERRAL_COMMISSION_RATES (percent of the membership fee):
\* REFERRAL_COMMISSION_RATES[level]
REFERRAL_COMMISSION_RATES == <<10, 5, 3, 2, 1>>

\* SQL NULL / Python None in an integer column
None == 0 - 1

(***************************************************************************)
(* The membership_tiers table.  Its rows are written only by the admin     *)
(* tier routes, which this model does not run: the table is fixed to two   *)
(* rows, `basic` with the values of config.py MEMBERSHIP_TIERS and `duo`,  *)
(* a tier an admin created with create_membership_tier.                    *)
(***************************************************************************)
MembershipTier ==
    [basic |-> [price |-> 3500, daily_missions |-> 1, referral_levels |-> 3],
     duo   |-> [price |-> 7050, daily_missions |-> 2, referral_levels |-> 2]]

TierNames == DOMAIN MembershipTier

VARIABLES
    users,          \* set of ids of the rows of `users` (id = username)
    wallet,         \* wallets: user id -> [balance, total_earned, total_withdrawn]
    transactions,   \* wallet_transactions rows
    referrals,      \* referrals rows
    commissions,    \* referral_commissions rows
    memberships,    \* memberships rows
    payments,       \* payments rows (the reference is the row index)
    missions,       \* missions rows
    completions,    \* mission_completions rows
    withdrawals,    \* withdrawals rows
    now,            \* the current day
    resp,           \* the response of the last request: [code, msg]
    referred_via,   \* history: user id -> the user whose referral code
                    \* resolved at that user's registration (None: no referrer)
    inflight        \* requests between their reads and their commit
                    \* (concurrent specification only)

vars == <<users, wallet, transactions, referrals, commissions, memberships,
          payments, missions, completions, withdrawals, now, resp,
          referred_via, inflight>>

UserIds == 1..MaxUsers

\* The requests that may be running at once, and a slot that runs none
Slots == 1..MaxRequests
Idle == [op |-> "idle"]

Respond(code, msg) == resp' = [code |-> code, msg |-> msg]

Min(S) == CHOOSE x \in S : \A y \in S : x <= y

(***************************************************************************)
(* models.py                                                               *)
(***************************************************************************)
\* WalletTransaction(wallet_id, amount, type, description)
WalletTransaction(wid, amount, type, description) ==
    [wallet_id |-> wid, amount |-> amount, type |-> type,
     description |-> description]

\* Wallet.add_funds without its WalletTransaction row (a faulty variant).
add_funds_unrecorded(w, txns, u, amount, description) ==
    [wallet |-> [w EXCEPT ![u].balance = @ + amount,
                          ![u].total_earned = @ + amount],
     transactions |-> txns]

\* Wallet.add_funds on the wallet of user u: the new wallets and ledger.
add_funds(w, txns, u, amount, description) ==
    [wallet |-> [w EXCEPT ![u].balance = @ + amount,
                          ![u].total_earned = @ + amount],
     transactions |-> Append(txns, WalletTransaction(u, amount, "credit", description))]

\* Wallet.deduct_funds raises ValueError("Insufficient funds") iff this holds
deduct_raises(w, u, amount) == w[u].balance < amount

\* Wallet.deduct_funds without its WalletTransaction row (a faulty variant).
deduct_funds_unrecorded(w, txns, u, amount, description) ==
    [wallet |-> [w EXCEPT ![u].balance = @ - amount],
     transactions |-> txns]

\* Wallet.deduct_funds on the wallet of user u when it does not raise.
deduct_funds(w, txns, u, amount, description) ==
    [wallet |-> [w EXCEPT ![u].balance = @ - amount],
     transactions |-> Append(txns, WalletTransaction(u, amount, "debit", description))]

\* User.membership (uselist=False): the membership row of user u, or None.
\* With several rows for one user the ORM loads the first.
membership_of(ms, u) ==
    LET rows == {i \in DOMAIN ms : ms[i].user_id = u}
    IN  IF rows = {} THEN None ELSE Min(rows)

\* Membership.is_expired that never reports expiry (a faulty variant).
is_expired_never(m, today) == FALSE

\* Membership.is_expired
is_expired(m, today) == today > m.end_date

(***************************************************************************)
(* auth/routes.py: register                                                *)
(***************************************************************************)
\* Referral(referrer_id, referred_id, level)
Referral(referrer_id, referred_id, level) ==
    [referrer_id |-> referrer_id, referred_id |-> referred_id, level |-> level]

\* The loop of register over levels 2..5: the rows it adds, starting at
\* current_referrer for `level`.  new_id is new_user.id as the loop reads it.
\* Referral.query.filter_by(referred_id=...).first() has no ORDER BY: the
\* model takes the row with the lowest id.
RECURSIVE indirect_referrals(_, _, _, _, _)
indirect_referrals(refs, ms, current_referrer, level, new_id) ==
    IF level > 5 THEN <<>>
    ELSE
      LET rel == {i \in DOMAIN refs : refs[i].referred_id = current_referrer}
      IN  IF rel = {} THEN <<>>
          ELSE
            LET indirect_referrer == refs[Min(rel)].referrer_id
                m == membership_of(ms, indirect_referrer)
                allowed == /\ m # None
                           /\ MembershipTier[ms[m].tier].referral_levels >= level
                rest == indirect_referrals(refs, ms, indirect_referrer, level + 1, new_id)
            IN  IF indirect_referrer = None THEN <<>>
                ELSE IF allowed
                     THEN <<Referral(indirect_referrer, new_id, level)>> \o rest
                     ELSE rest

\* The loop of register with the membership test of lines 77 left out (a
\* faulty variant).
RECURSIVE indirect_referrals_ungated(_, _, _, _)
indirect_referrals_ungated(refs, current_referrer, level, new_id) ==
    IF level > 5 THEN <<>>
    ELSE
      LET rel == {i \in DOMAIN refs : refs[i].referred_id = current_referrer}
      IN  IF rel = {} \/ refs[Min(rel)].referrer_id = None THEN <<>>
          ELSE <<Referral(refs[Min(rel)].referrer_id, new_id, level)>>
               \o indirect_referrals_ungated(refs, refs[Min(rel)].referrer_id,
                                             level + 1, new_id)

\* register where every ancestor gets its edge whatever its membership, the
\* edges carrying the id of the new user (a faulty variant).
register_ungated(referral_code) ==
    LET new_user == Cardinality(users) + 1
        found == referral_code # None /\ referral_code \in users
        new_rows == IF found
                    THEN <<Referral(referral_code, new_user, 1)>>
                         \o indirect_referrals_ungated(referrals, referral_code,
                                                       2, new_user)
                    ELSE <<>>
    IN  /\ users' = users \cup {new_user}
        /\ wallet' = [u \in users \cup {new_user} |->
                        IF u = new_user
                        THEN [balance |-> 0, total_earned |-> 0, total_withdrawn |-> 0]
                        ELSE wallet[u]]
        /\ referrals' = referrals \o new_rows
        /\ referred_via' = [u \in users \cup {new_user} |->
                              IF u = new_user
                              THEN (IF found THEN referral_code ELSE None)
                              ELSE referred_via[u]]
        /\ Respond(201, "User registered successfully")
        /\ UNCHANGED <<transactions, commissions, memberships, payments,
                       missions, completions, withdrawals, now, inflight>>

\* register where new_user is flushed before the Referral rows are built, so
\* that the rows carry its id (a variant the source does not implement).
register_flushed(referral_code) ==
    LET new_user == Cardinality(users) + 1
        found == referral_code # None /\ referral_code \in users
        new_rows == IF found
                    THEN <<Referral(referral_code, new_user, 1)>>
                         \o indirect_referrals(referrals, memberships,
                                               referral_code, 2, new_user)
                    ELSE <<>>
    IN  /\ users' = users \cup {new_user}
        /\ wallet' = [u \in users \cup {new_user} |->
                        IF u = new_user
                        THEN [balance |-> 0, total_earned |-> 0, total_withdrawn |-> 0]
                        ELSE wallet[u]]
        /\ referrals' = referrals \o new_rows
        /\ referred_via' = [u \in users \cup {new_user} |->
                              IF u = new_user
                              THEN (IF found THEN referral_code ELSE None)
                              ELSE referred_via[u]]
        /\ Respond(201, "User registered successfully")
        /\ UNCHANGED <<transactions, commissions, memberships, payments,
                       missions, completions, withdrawals, now, inflight>>

\* register with valid, unused identity fields.  The username (which is the
\* referral code) of the new user is its id.  referral_code is None when the
\* request has none.  new_user is added to the session only after the
\* Referral rows were built, so new_user.id is still None in them.
register(referral_code) ==
    LET new_user == Cardinality(users) + 1
        new_user_id == None      \* new_user.id before the flush
        found == referral_code # None /\ referral_code \in users
        new_rows == IF found
                    THEN <<Referral(referral_code, new_user_id, 1)>>
                         \o indirect_referrals(referrals, memberships,
                                               referral_code, 2, new_user_id)
                    ELSE <<>>
    IN  /\ users' = users \cup {new_user}
        /\ wallet' = [u \in users \cup {new_user} |->
                        IF u = new_user
                        THEN [balance |-> 0, total_earned |-> 0, total_withdrawn |-> 0]
                        ELSE wallet[u]]
        /\ referrals' = referrals \o new_rows
        /\ referred_via' = [u \in users \cup {new_user} |->
                              IF u = new_user
                              THEN (IF found THEN referral_code ELSE None)
                              ELSE referred_via[u]]
        /\ Respond(201, "User registered successfully")
        /\ UNCHANGED <<transactions, commissions, memberships, payments,
                       missions, completions, withdrawals, now, inflight>>

(***************************************************************************)
(* payment/routes.py                                                       *)
(***************************************************************************)
\* initialize_payment by user u for tier `tier`; stk_ok is the outcome of the
\* gateway's STK push (card and paypal behave as a push that succeeded).
\* The payment's reference is its row index; its description is
\* "Membership: <tier.name>", kept as the tier name.
initialize_payment(u, tier, stk_ok) ==
    IF u \notin users
    THEN Respond(404, "User not found")
         /\ UNCHANGED <<users, wallet, transactions, referrals, commissions,
                        memberships, payments, missions, completions,
                        withdrawals, now, referred_via, inflight>>
    ELSE IF tier \notin TierNames
    THEN Respond(400, "Invalid membership tier")
         /\ UNCHANGED <<users, wallet, transactions, referrals, commissions,
                        memberships, payments, missions, completions,
                        withdrawals, now, referred_via, inflight>>
    ELSE /\ Len(payments) < MaxPayments
         /\ payments' = Append(payments,
                [user_id |-> u, amount |-> MembershipTier[tier].price,
                 tier |-> tier,
                 status |-> IF stk_ok THEN "pending" ELSE "failed",
                 completed_at |-> None])
         /\ IF stk_ok THEN Respond(200, "Please complete the payment")
                      ELSE Respond(400, "Failed to initiate payment")
         /\ UNCHANGED <<users, wallet, transactions, referrals, commissions,
                        memberships, missions, completions, withdrawals, now,
                        referred_via, inflight>>

\* Membership(user_id, tier_id, payment_id): start_date defaults to utcnow(),
\* end_date to utcnow() + 365 days, is_active to True.
Membership(user_id, tier, payment_id, today) ==
    [user_id |-> user_id, tier |-> tier, start_date |-> today,
     end_date |-> today + MembershipDays, is_active |-> TRUE,
     payment_id |-> payment_id]

\* mpesa_callback that, activating a membership, also adds a Referral edge
\* for the purchaser (a faulty variant).
mpesa_callback_recomputing(reference, result_code) ==
    /\ reference \in DOMAIN payments
    /\ result_code = 0
    /\ membership_of(memberships, payments[reference].user_id) = None
    /\ payments' = [payments EXCEPT ![reference].status = "completed",
                                    ![reference].completed_at = now]
    /\ memberships' = Append(memberships,
            Membership(payments[reference].user_id, payments[reference].tier,
                       reference, now))
    /\ referrals' = Append(referrals,
            Referral(payments[reference].user_id, None, 2))
    /\ Respond(200, "success")
    /\ UNCHANGED <<users, wallet, transactions, commissions, missions,
                   completions, withdrawals, now, referred_via, inflight>>

\* mpesa_callback that, on a failed result, also deactivates the membership
\* bought with the payment (a faulty variant).
mpesa_callback_revoking(reference, result_code) ==
    /\ reference \in DOMAIN payments
    /\ IF result_code = 0
       THEN /\ membership_of(memberships, payments[reference].user_id) = None
            /\ payments' = [payments EXCEPT ![reference].status = "completed",
                                            ![reference].completed_at = now]
            /\ memberships' = Append(memberships,
                    Membership(payments[reference].user_id,
                               payments[reference].tier, reference, now))
            /\ Respond(200, "success")
       ELSE /\ payments' = [payments EXCEPT ![reference].status = "failed"]
            /\ memberships' = [i \in DOMAIN memberships |->
                    IF memberships[i].payment_id = reference
                    THEN [memberships[i] EXCEPT !.is_active = FALSE]
                    ELSE memberships[i]]
            /\ Respond(200, "failure")
    /\ UNCHANGED <<users, wallet, transactions, referrals, commissions,
                   missions, completions, withdrawals, now, referred_via,
                   inflight>>

\* mpesa_callback for ?reference=reference with ResultCode result_code.
\* With an existing membership line 144 raises NameError (timedelta is not
\* imported by payment/routes.py): the request ends 500 and the session,
\* payment.status = 'completed' included, is rolled back.
mpesa_callback(reference, result_code) ==
    IF reference \notin DOMAIN payments
    THEN Respond(404, "Payment not found")
         /\ UNCHANGED <<users, wallet, transactions, referrals, commissions,
                        memberships, payments, missions, completions,
                        withdrawals, now, referred_via, inflight>>
    ELSE IF result_code = 0
    THEN LET payment == payments[reference]
             m == membership_of(memberships, payment.user_id)
         IN  IF m # None
             THEN Respond(500, "Internal server error")
                  /\ UNCHANGED <<users, wallet, transactions, referrals,
                                 commissions, memberships, payments, missions,
                                 completions, withdrawals, now, referred_via,
                                 inflight>>
             ELSE /\ payments' = [payments EXCEPT
                                    ![reference].status = "completed",
                                    ![reference].completed_at = now]
                  /\ memberships' = Append(memberships,
                        Membership(payment.user_id, payment.tier, reference, now))
                  /\ Respond(200, "success")
                  /\ UNCHANGED <<users, wallet, transactions, referrals,
                                 commissions, missions, completions,
                                 withdrawals, now, referred_via, inflight>>
    ELSE /\ payments' = [payments EXCEPT ![reference].status = "failed"]
         /\ Respond(200, "failure")
         /\ UNCHANGED <<users, wallet, transactions, referrals, commissions,
                        memberships, missions, completions, withdrawals, now,
                        referred_via, inflight>>

\* One day passes.
Tick ==
    /\ now < MaxDay
    /\ now' = now + 1
    /\ UNCHANGED <<users, wallet, transactions, referrals, commissions,
                   memberships, payments, missions, completions, withdrawals,
                   resp, referred_via, inflight>>

\* More than a membership period passes without a request: the memberships
\* bought before it are expired afterwards (utcnow() > end_date).
Lapse ==
    /\ now <= MaxDay
    /\ now' = now + MembershipDays + 1
    /\ UNCHANGED <<users, wallet, transactions, referrals, commissions,
                   memberships, payments, missions, completions, withdrawals,
                   resp, referred_via, inflight>>

(***************************************************************************)
(* mission/utils.py                                                        *)
(***************************************************************************)
\* A submitted proof, by what validate_mission_completion reads of it:
\*   text        "empty" (absent or ''), "garbage" (json.loads raises) or
\*               "json" (a JSON object)
\*   duration    proof_data.get('duration', 0)
\*   engagement  bool(engagement_id and platform)
\*   responses   len(proof_data.get('responses', []))
Proof(text, duration, engagement, responses) ==
    [text |-> text, duration |-> duration, engagement |-> engagement,
     responses |-> responses]

\* validate_mission_completion with the 'ad' threshold tested by > for >=
\* (a faulty variant).
validate_mission_completion_strict(mission, proof) ==
    IF proof.text = "empty" THEN FALSE
    ELSE IF mission.type = "ad"
    THEN proof.text = "json" /\ 10 * proof.duration > 9 * mission.duration
    ELSE IF mission.type = "social"
    THEN proof.text = "json" /\ proof.engagement
    ELSE IF mission.type = "survey"
    THEN proof.text = "json" /\ proof.responses > 0
    ELSE TRUE

\* `if not proof: return False` comes first, for every mission type; a proof
\* json.loads cannot parse raises inside the bare try/except, which returns
\* False.  view_duration >= mission.duration * 0.9 is compared in tenths:
\* for integers the float product gives the same verdict.
validate_mission_completion(mission, proof) ==
    IF proof.text = "empty" THEN FALSE
    ELSE IF mission.type = "ad"
    THEN proof.text = "json" /\ 10 * proof.duration >= 9 * mission.duration
    ELSE IF mission.type = "social"
    THEN proof.text = "json" /\ proof.engagement
    ELSE IF mission.type = "survey"
    THEN proof.text = "json" /\ proof.responses > 0
    ELSE TRUE

(***************************************************************************)
(* admin/routes.py: missions                                               *)
(***************************************************************************)
\* create_mission with every required field present.  No field is validated.
create_mission(reward, type, duration, is_active) ==
    /\ Len(missions) < MaxMissions
    /\ missions' = Append(missions,
            [reward |-> reward, type |-> type, duration |-> duration,
             is_active |-> is_active])
    /\ Respond(201, "Mission created successfully")
    /\ UNCHANGED <<users, wallet, transactions, referrals, commissions,
                   memberships, payments, completions, withdrawals, now,
                   referred_via, inflight>>

\* update_mission that restates the reward of the mission's existing
\* completions (a faulty variant).
update_mission_restating(mission_id, reward, is_active) ==
    /\ mission_id \in DOMAIN missions
    /\ missions' = [missions EXCEPT ![mission_id].reward = reward,
                                    ![mission_id].is_active = is_active]
    /\ completions' = [c \in DOMAIN completions |->
                         IF completions[c].mission_id = mission_id
                         THEN [completions[c] EXCEPT !.reward = reward]
                         ELSE completions[c]]
    /\ Respond(200, "Mission updated successfully")
    /\ UNCHANGED <<users, wallet, transactions, referrals, commissions,
                   memberships, payments, withdrawals, now,
                   referred_via, inflight>>

\* update_mission with 'reward' and 'is_active' in the request.
update_mission(mission_id, reward, is_active) ==
    IF mission_id \notin DOMAIN missions
    THEN Respond(404, "Mission not found")
         /\ UNCHANGED <<users, wallet, transactions, referrals, commissions,
                        memberships, payments, missions, completions,
                        withdrawals, now, referred_via, inflight>>
    ELSE /\ missions' = [missions EXCEPT ![mission_id].reward = reward,
                                         ![mission_id].is_active = is_active]
         /\ Respond(200, "Mission updated successfully")
         /\ UNCHANGED <<users, wallet, transactions, referrals, commissions,
                        memberships, payments, completions, withdrawals, now,
                        referred_via, inflight>>

(***************************************************************************)
(* mission/routes.py: complete_mission                                     *)
(***************************************************************************)
\* MissionCompletion rows of user u completed on day `today`
completed_on(cs, u, today) ==
    {i \in DOMAIN cs : cs[i].user_id = u /\ cs[i].completed_at = today}

\* The checks of complete_mission without the already-completed test (a
\* faulty variant).
complete_mission_check_repeatable(us, ms, mis, cs, today, u, mission_id, proof) ==
    IF u \notin us THEN <<404, "User not found">>
    ELSE
      LET m == membership_of(ms, u)
      IN  IF m = None \/ ~ms[m].is_active \/ is_expired(ms[m], today)
          THEN <<403, "Active membership required">>
          ELSE IF mission_id \notin DOMAIN mis \/ ~mis[mission_id].is_active
          THEN <<404, "Mission not found">>
          ELSE IF Cardinality(completed_on(cs, u, today))
                    >= MembershipTier[ms[m].tier].daily_missions
          THEN <<400, "Daily mission limit reached">>
          ELSE IF ~validate_mission_completion(mis[mission_id], proof)
          THEN <<400, "Invalid mission completion proof">>
          ELSE <<200, "ok">>

\* The checks of complete_mission with the daily limit tested by > for >=
\* (a faulty variant).
complete_mission_check_off_by_one(us, ms, mis, cs, today, u, mission_id, proof) ==
    IF u \notin us THEN <<404, "User not found">>
    ELSE
      LET m == membership_of(ms, u)
      IN  IF m = None \/ ~ms[m].is_active \/ is_expired(ms[m], today)
          THEN <<403, "Active membership required">>
          ELSE IF mission_id \notin DOMAIN mis \/ ~mis[mission_id].is_active
          THEN <<404, "Mission not found">>
          ELSE IF \E i \in completed_on(cs, u, today) : cs[i].mission_id = mission_id
          THEN <<400, "Mission already completed today">>
          ELSE IF Cardinality(completed_on(cs, u, today))
                    > MembershipTier[ms[m].tier].daily_missions
          THEN <<400, "Daily mission limit reached">>
          ELSE IF ~validate_mission_completion(mis[mission_id], proof)
          THEN <<400, "Invalid mission completion proof">>
          ELSE <<200, "ok">>

\* The checks of complete_mission (lines 105-142): the error response, or
\* <<200, "ok">> when every check passes.
complete_mission_check(us, ms, mis, cs, today, u, mission_id, proof) ==
    IF u \notin us THEN <<404, "User not found">>
    ELSE
      LET m == membership_of(ms, u)
      IN  IF m = None \/ ~ms[m].is_active \/ is_expired(ms[m], today)
          THEN <<403, "Active membership required">>
          ELSE IF mission_id \notin DOMAIN mis \/ ~mis[mission_id].is_active
          THEN <<404, "Mission not found">>
          ELSE IF \E i \in completed_on(cs, u, today) : cs[i].mission_id = mission_id
          THEN <<400, "Mission already completed today">>
          ELSE IF Cardinality(completed_on(cs, u, today))
                    >= MembershipTier[ms[m].tier].daily_missions
          THEN <<400, "Daily mission limit reached">>
          ELSE IF ~validate_mission_completion(mis[mission_id], proof)
          THEN <<400, "Invalid mission completion proof">>
          ELSE <<200, "ok">>

\* MissionCompletion(user_id, mission_id, reward, proof), completed_at = utcnow()
MissionCompletion(u, mission_id, reward, today) ==
    [user_id |-> u, mission_id |-> mission_id, reward |-> reward,
     completed_at |-> today]

complete_mission(u, mission_id, proof) ==
    LET chk == complete_mission_check(users, memberships, missions, completions,
                                      now, u, mission_id, proof)
    IN  IF chk[1] # 200
        THEN Respond(chk[1], chk[2])
             /\ UNCHANGED <<users, wallet, transactions, referrals, commissions,
                            memberships, payments, missions, completions,
                            withdrawals, now, referred_via, inflight>>
        ELSE LET reward == missions[mission_id].reward
                 paid == add_funds(wallet, transactions, u, reward,
                                   "Reward for completing mission")
             IN  /\ Len(transactions) < MaxTxns
                 /\ wallet' = paid.wallet
                 /\ transactions' = paid.transactions
                 /\ completions' = Append(completions,
                        MissionCompletion(u, mission_id, reward, now))
                 /\ Respond(200, "Mission completed successfully")
                 /\ UNCHANGED <<users, referrals, commissions, memberships,
                                payments, missions, withdrawals, now,
                                referred_via, inflight>>

(***************************************************************************)
(* wallet/routes.py: request_withdrawal                                    *)
(***************************************************************************)
valid_methods == {"mpesa", "bank", "paypal"}

\* Withdrawal(user_id, amount, method, account_info, status='pending').
\* method and account_info are never read again and are left out of the row.
Withdrawal(u, amount) ==
    [user_id |-> u, amount |-> amount, status |-> "pending",
     processed_at |-> None]

\* The checks of request_withdrawal (lines 84-108) against the wallet the
\* request loaded.  amount is an integer (a non-integer is rejected like a
\* non-positive one).
request_withdrawal_check(us, w, u, amount, method) ==
    IF u \notin us THEN <<404, "Wallet not found">>
    ELSE IF amount <= 0 THEN <<400, "Invalid amount">>
    ELSE IF w[u].balance < amount THEN <<400, "Insufficient balance">>
    ELSE IF method \notin valid_methods THEN <<400, "Invalid method">>
    ELSE <<200, "ok">>

\* request_withdrawal where neither the handler nor deduct_funds tests the
\* balance (a faulty variant).
request_withdrawal_unchecked(u, amount, method) ==
    LET paid == deduct_funds(wallet, transactions, u, amount, "Withdrawal request")
    IN  /\ u \in users /\ amount > 0 /\ method \in valid_methods
        /\ Len(transactions) < MaxTxns
        /\ wallet' = paid.wallet
        /\ transactions' = paid.transactions
        /\ withdrawals' = Append(withdrawals, Withdrawal(u, amount))
        /\ Respond(201, "Withdrawal request submitted successfully")
        /\ UNCHANGED <<users, referrals, commissions, memberships,
                       payments, missions, completions, now,
                       referred_via, inflight>>

request_withdrawal(u, amount, method) ==
    LET chk == request_withdrawal_check(users, wallet, u, amount, method)
    IN  IF chk[1] # 200
        THEN Respond(chk[1], chk[2])
             /\ UNCHANGED <<users, wallet, transactions, referrals, commissions,
                            memberships, payments, missions, completions,
                            withdrawals, now, referred_via, inflight>>
        ELSE IF deduct_raises(wallet, u, amount)
        THEN Respond(400, "Insufficient funds")
             /\ UNCHANGED <<users, wallet, transactions, referrals, commissions,
                            memberships, payments, missions, completions,
                            withdrawals, now, referred_via, inflight>>
        ELSE LET paid == deduct_funds(wallet, transactions, u, amount,
                                      "Withdrawal request")
             IN  /\ Len(transactions) < MaxTxns
                 /\ wallet' = paid.wallet
                 /\ transactions' = paid.transactions
                 /\ withdrawals' = Append(withdrawals, Withdrawal(u, amount))
                 /\ Respond(201, "Withdrawal request submitted successfully")
                 /\ UNCHANGED <<users, referrals, commissions, memberships,
                                payments, missions, completions, now,
                                referred_via, inflight>>

(***************************************************************************)
(* admin/routes.py: process_withdrawal                                     *)
(***************************************************************************)
\* process_withdrawal with data['status'] = new_status; "absent" stands for a
\* request without 'status'.
process_withdrawal(withdrawal_id, new_status) ==
    IF withdrawal_id \notin DOMAIN withdrawals
    THEN Respond(404, "Withdrawal not found")
         /\ UNCHANGED <<users, wallet, transactions, referrals, commissions,
                        memberships, payments, missions, completions,
                        withdrawals, now, referred_via, inflight>>
    ELSE IF new_status = "absent"
    THEN Respond(200, "Withdrawal updated successfully")
         /\ UNCHANGED <<users, wallet, transactions, referrals, commissions,
                        memberships, payments, missions, completions,
                        withdrawals, now, referred_via, inflight>>
    ELSE IF new_status \notin {"pending", "completed", "failed"}
    THEN Respond(400, "Invalid status")
         /\ UNCHANGED <<users, wallet, transactions, referrals, commissions,
                        memberships, payments, missions, completions,
                        withdrawals, now, referred_via, inflight>>
    ELSE LET withdrawal == withdrawals[withdrawal_id]
             leaving == new_status # "pending" /\ withdrawal.status = "pending"
             refund == leaving /\ new_status = "failed"
                       /\ withdrawal.user_id \in users
             paid == add_funds(wallet, transactions, withdrawal.user_id,
                               withdrawal.amount, "Refund for failed withdrawal")
         IN  /\ refund => Len(transactions) < MaxTxns
             /\ wallet' = IF refund THEN paid.wallet ELSE wallet
             /\ transactions' = IF refund THEN paid.transactions ELSE transactions
             /\ withdrawals' = [withdrawals EXCEPT
                    ![withdrawal_id].processed_at = IF leaving THEN now ELSE @,
                    ![withdrawal_id].status = new_status]
             /\ Respond(200, "Withdrawal updated successfully")
             /\ UNCHANGED <<users, referrals, commissions, memberships,
                            payments, missions, completions, now,
                            referred_via, inflight>>

(***************************************************************************)
(* models.py: User.get_available_missions, and its route                   *)
(***************************************************************************)
\* The results User.get_available_missions can return for user u: each is a
\* set of mission ids.  The query has .limit(k) and no ORDER BY, so any k of
\* the matching rows can come back.  The method tests membership.is_active
\* and nothing else of the membership.
get_available_missions(ms, mis, cs, today, u) ==
    LET m == membership_of(ms, u)
    IN  IF m = None \/ ~ms[m].is_active THEN {{}}
        ELSE
          LET done == completed_on(cs, u, today)
              daily_limit == MembershipTier[ms[m].tier].daily_missions
              matching == {i \in DOMAIN mis :
                             /\ mis[i].is_active
                             /\ \A c \in done : cs[c].mission_id # i}
          IN  IF Cardinality(done) >= daily_limit THEN {{}}
              ELSE {r \in SUBSET matching :
                      Cardinality(r) = Min({Cardinality(matching),
                                           daily_limit - Cardinality(done)})}

\* GET /missions/: <<status code, the possible 'missions' lists>>.  The
\* route refuses an expired membership before it calls the method.
get_available_missions_route(us, ms, mis, cs, today, u) ==
    IF u \notin us THEN <<404, {{}}>>
    ELSE
      LET m == membership_of(ms, u)
      IN  IF m = None \/ ~ms[m].is_active \/ is_expired(ms[m], today)
          THEN <<403, {{}}>>
          ELSE <<200, get_available_missions(ms, mis, cs, today, u)>>

(***************************************************************************)
(* Inputs of the requests                                                  *)
(***************************************************************************)
Rewards == {0 - 1, 2}
Amounts == 0..2
MissionTypes == {"ad"}
Durations == {10}
Proofs == {Proof("empty", 0, FALSE, 0), Proof("garbage", 0, FALSE, 0),
           Proof("json", 8, FALSE, 0), Proof("json", 9, FALSE, 0)}
LedgerProofs == {Proof("empty", 0, FALSE, 0), Proof("json", 9, FALSE, 0)}
Methods == {"mpesa", "cash"}
\* mission types and proofs for the proof validation: the three types
\* validate_mission_completion names and one it does not
ValidatedTypes == {"ad", "social", "survey", "quiz"}
ValidatedDurations == {10, 30}
ProofInputs ==
    {Proof("empty", 0, FALSE, 0), Proof("garbage", 0, FALSE, 0)}
    \cup {Proof("json", d, e, r) :
            d \in {8, 9, 25, 26, 27, 28}, e \in BOOLEAN, r \in {0, 1}}
Statuses == {"pending", "completed", "failed", "bogus", "absent"}

(***************************************************************************)
(* Payments and registration, from the empty database.                     *)
(***************************************************************************)
InitPay ==
    /\ users = {}
    /\ wallet = << >>
    /\ transactions = <<>>
    /\ referrals = <<>>
    /\ commissions = <<>>
    /\ memberships = <<>>
    /\ payments = <<>>
    /\ missions = <<>>
    /\ completions = <<>>
    /\ withdrawals = <<>>
    /\ now = 0
    /\ resp = [code |-> 0, msg |-> ""]
    /\ referred_via = << >>
    /\ inflight = [s \in Slots |-> Idle]

NextPay ==
    \/ \E code \in UserIds \cup {None} :
            Cardinality(users) < MaxUsers /\ register(code)
    \/ \E u \in UserIds, tier \in TierNames \cup {"none"}, ok \in BOOLEAN :
            initialize_payment(u, tier, ok)
    \/ \E ref \in 1..(MaxPayments + 1), rc \in {0, 1} : mpesa_callback(ref, rc)
    \/ Tick
    \/ Lapse

SpecPay == InitPay /\ [][NextPay]_vars

(***************************************************************************)
(* The referral graph: registrations along a chain of referral codes,      *)
(* while memberships are bought and expire.  The initial states are states *)
(* SpecPay reaches (see InitRefUnreached): user 1 registered without a     *)
(* code and bought a membership of either tier.                            *)
(***************************************************************************)
InitRef ==
    \E tier \in TierNames :
    /\ users = {1}
    /\ wallet = [u \in {1} |->
                    [balance |-> 0, total_earned |-> 0, total_withdrawn |-> 0]]
    /\ transactions = <<>>
    /\ referrals = <<>>
    /\ commissions = <<>>
    /\ memberships = <<Membership(1, tier, 1, 0)>>
    /\ payments = <<[user_id |-> 1, amount |-> MembershipTier[tier].price,
                     tier |-> tier, status |-> "completed", completed_at |-> 0]>>
    /\ missions = <<>>
    /\ completions = <<>>
    /\ withdrawals = <<>>
    /\ now = 0
    /\ resp = [code |-> 200, msg |-> "success"]
    /\ referred_via = [u \in {1} |-> None]
    /\ inflight = [s \in Slots |-> Idle]

NextRef ==
    \/ \E code \in (1..MaxChain) \cup {None} :
            Cardinality(users) < MaxChain /\ register(code)
    \/ \E u \in users, tier \in TierNames : initialize_payment(u, tier, TRUE)
    \/ \E ref \in DOMAIN payments, rc \in {0, 1} : mpesa_callback(ref, rc)
    \/ Lapse

SpecRef == InitRef /\ [][NextRef]_vars

(***************************************************************************)
(* The wallet ledger and withdrawals, funded by mission rewards.  The      *)
(* initial states are states SpecPay reaches: register(None), register(1), *)
(* initialize_payment(1, tier) and the successful mpesa_callback of that   *)
(* payment, for either tier (see InitUnreached).                           *)
(* User 1 is a member, user 2 is not.                                      *)
(***************************************************************************)
Init ==
    \E tier \in TierNames :
    /\ users = {1, 2}
    /\ wallet = [u \in {1, 2} |->
                    [balance |-> 0, total_earned |-> 0, total_withdrawn |-> 0]]
    /\ transactions = <<>>
    /\ referrals = <<Referral(1, None, 1)>>
    /\ commissions = <<>>
    /\ memberships = <<Membership(1, tier, 1, 0)>>
    /\ payments = <<[user_id |-> 1, amount |-> MembershipTier[tier].price,
                     tier |-> tier, status |-> "completed", completed_at |-> 0]>>
    /\ missions = <<>>
    /\ completions = <<>>
    /\ withdrawals = <<>>
    /\ now = 0
    /\ resp = [code |-> 200, msg |-> "success"]
    /\ referred_via = [u \in {1, 2} |-> IF u = 2 THEN 1 ELSE None]
    /\ inflight = [s \in Slots |-> Idle]

Next ==
    \/ \E r \in Rewards, d \in Durations :
            Len(missions) < MaxLedgerMissions /\ create_mission(r, "ad", d, TRUE)
    \/ \E m \in 1..MaxLedgerMissions, r \in Rewards, a \in BOOLEAN :
            update_mission(m, r, a)
    \/ \E u \in users, m \in 1..MaxLedgerMissions, p \in LedgerProofs :
            complete_mission(u, m, p)
    \/ \E u \in users, a \in Amounts, meth \in Methods :
            request_withdrawal(u, a, meth)
    \/ \E w \in 1..(Len(withdrawals) + 1), st \in Statuses :
            process_withdrawal(w, st)
    \/ Tick

Spec == Init /\ [][Next]_vars

(***************************************************************************)
(* Mission eligibility and the daily quota: the same initial states, the   *)
(* admin's missions all with reward 1, and no withdrawals.                  *)
(***************************************************************************)
NextMission ==
    \/ \E t \in MissionTypes, d \in Durations : create_mission(1, t, d, TRUE)
    \/ \E m \in 1..MaxMissions, a \in BOOLEAN : update_mission(m, 1, a)
    \/ \E u \in users, m \in 1..MaxMissions, p \in Proofs :
            complete_mission(u, m, p)
    \/ Tick
    \/ Lapse

SpecMission == Init /\ [][NextMission]_vars

(***************************************************************************)
(* Proof validation: the same initial states, missions of every type, and  *)
(* completions with every proof.                                           *)
(***************************************************************************)
NextProof ==
    \/ \E t \in ValidatedTypes, d \in ValidatedDurations :
            Len(missions) < MaxProofMissions /\ create_mission(1, t, d, TRUE)
    \/ \E u \in users, m \in 1..MaxProofMissions, p \in ProofInputs :
            complete_mission(u, m, p)
    \/ Tick

SpecProof == Init /\ [][NextProof]_vars

(***************************************************************************)
(* Concurrent requests.  The handlers take no lock and no SELECT ... FOR   *)
(* UPDATE: a request reads its rows into its own session (its checks and   *)
(* the wallet row), computes the new column values in Python, and at       *)
(* db.session.commit() inserts its new rows and writes the computed values *)
(* with UPDATE wallets SET balance = <value>.  Another request may commit  *)
(* between the two steps (config.py: PostgreSQL in production, at its      *)
(* default READ COMMITTED isolation).  The read step below is lines        *)
(* 102-158 of complete_mission, resp. 81-122 of request_withdrawal; the    *)
(* commit step is the db.session.commit() that follows.                    *)
(***************************************************************************)
\* The number of requests between their reads and their commit
Running == Cardinality({t \in Slots : inflight[t] # Idle})

begin_complete_mission(s, u, mission_id, proof) ==
    LET chk == complete_mission_check(users, memberships, missions, completions,
                                      now, u, mission_id, proof)
    IN  /\ inflight[s] = Idle
        /\ IF chk[1] # 200
           THEN Respond(chk[1], chk[2]) /\ UNCHANGED inflight
           ELSE /\ Len(transactions) + Running < MaxTxns
                /\ inflight' = [inflight EXCEPT ![s] =
                        [op |-> "complete_mission", user |-> u,
                         mission_id |-> mission_id,
                         reward |-> missions[mission_id].reward,
                         row |-> wallet[u]]]
                /\ UNCHANGED resp
        /\ UNCHANGED <<users, wallet, transactions, referrals, commissions,
                       memberships, payments, missions, completions,
                       withdrawals, now, referred_via>>

commit_complete_mission(s) ==
    /\ inflight[s].op = "complete_mission"
    /\ LET r == inflight[s]
           session == [wallet EXCEPT ![r.user] = r.row]
           paid == add_funds(session, transactions, r.user, r.reward,
                             "Reward for completing mission")
       IN  /\ wallet' = [wallet EXCEPT
                    ![r.user].balance = paid.wallet[r.user].balance,
                    ![r.user].total_earned = paid.wallet[r.user].total_earned]
           /\ transactions' = paid.transactions
           /\ completions' = Append(completions,
                    MissionCompletion(r.user, r.mission_id, r.reward, now))
    /\ inflight' = [inflight EXCEPT ![s] = Idle]
    /\ Respond(200, "Mission completed successfully")
    /\ UNCHANGED <<users, referrals, commissions, memberships, payments,
                   missions, withdrawals, now, referred_via>>

begin_request_withdrawal(s, u, amount, method) ==
    LET chk == request_withdrawal_check(users, wallet, u, amount, method)
    IN  /\ inflight[s] = Idle
        /\ IF chk[1] # 200
           THEN Respond(chk[1], chk[2]) /\ UNCHANGED inflight
           ELSE /\ Len(transactions) + Running < MaxTxns
                /\ inflight' = [inflight EXCEPT ![s] =
                        [op |-> "request_withdrawal", user |-> u,
                         amount |-> amount, row |-> wallet[u]]]
                /\ UNCHANGED resp
        /\ UNCHANGED <<users, wallet, transactions, referrals, commissions,
                       memberships, payments, missions, completions,
                       withdrawals, now, referred_via>>

\* deduct_funds tests the balance the session loaded, which passed the
\* handler's own check: it does not raise here.
commit_request_withdrawal(s) ==
    /\ inflight[s].op = "request_withdrawal"
    /\ LET r == inflight[s]
           session == [wallet EXCEPT ![r.user] = r.row]
           paid == deduct_funds(session, transactions, r.user, r.amount,
                                "Withdrawal request")
       IN  /\ ~deduct_raises(session, r.user, r.amount)
           /\ wallet' = [wallet EXCEPT
                    ![r.user].balance = paid.wallet[r.user].balance]
           /\ transactions' = paid.transactions
           /\ withdrawals' = Append(withdrawals, Withdrawal(r.user, r.amount))
    /\ inflight' = [inflight EXCEPT ![s] = Idle]
    /\ Respond(201, "Withdrawal request submitted successfully")
    /\ UNCHANGED <<users, referrals, commissions, memberships, payments,
                   missions, completions, now, referred_via>>

\* A state SpecMission reaches (see ConcUnreached): the
\* admin's missions, the first completed by user 1 on day 0, and a day later.
InitConc ==
    \E tier \in TierNames :
    /\ users = {1, 2}
    /\ wallet = [u \in {1, 2} |->
                    IF u = 1
                    THEN [balance |-> 1, total_earned |-> 1, total_withdrawn |-> 0]
                    ELSE [balance |-> 0, total_earned |-> 0, total_withdrawn |-> 0]]
    /\ transactions = <<WalletTransaction(1, 1, "credit",
                                          "Reward for completing mission")>>
    /\ referrals = <<Referral(1, None, 1)>>
    /\ commissions = <<>>
    /\ memberships = <<Membership(1, tier, 1, 0)>>
    /\ payments = <<[user_id |-> 1, amount |-> MembershipTier[tier].price,
                     tier |-> tier, status |-> "completed", completed_at |-> 0]>>
    /\ missions = [i \in 1..MaxMissions |->
                    [reward |-> 1, type |-> "ad", duration |-> 10,
                     is_active |-> TRUE]]
    /\ completions = <<MissionCompletion(1, 1, 1, 0)>>
    /\ withdrawals = <<>>
    /\ now = 1
    /\ resp = [code |-> 200, msg |-> "Mission completed successfully"]
    /\ referred_via = [u \in {1, 2} |-> IF u = 2 THEN 1 ELSE None]
    /\ inflight = [s \in Slots |-> Idle]

NextConc ==
    \/ \E s \in Slots, u \in users, m \in 1..MaxMissions, p \in LedgerProofs :
            begin_complete_mission(s, u, m, p)
    \/ \E s \in Slots : commit_complete_mission(s)
    \/ \E s \in Slots, u \in users, a \in Amounts, meth \in Methods :
            begin_request_withdrawal(s, u, a, meth)
    \/ \E s \in Slots : commit_request_withdrawal(s)

SpecConc == InitConc /\ [][NextConc]_vars

(***************************************************************************)
(* Concurrent payment results.  mpesa_callback reads the payment, the user *)
(* and user.membership (lines 121-141), and writes at db.session.commit()  *)
(* (line 156, resp. 162); memberships.user_id carries no unique            *)
(* constraint.  With a membership present the request ends in the read     *)
(* step (NameError at line 144).                                           *)
(***************************************************************************)
begin_mpesa_callback(s, reference, result_code) ==
    /\ inflight[s] = Idle
    /\ IF reference \notin DOMAIN payments
       THEN Respond(404, "Payment not found") /\ UNCHANGED inflight
       ELSE IF result_code = 0
               /\ membership_of(memberships, payments[reference].user_id) # None
       THEN Respond(500, "Internal server error") /\ UNCHANGED inflight
       ELSE /\ inflight' = [inflight EXCEPT ![s] =
                    [op |-> "mpesa_callback", reference |-> reference,
                     result_code |-> result_code,
                     user |-> payments[reference].user_id,
                     tier |-> payments[reference].tier,
                     completed_at |-> now]]
            /\ UNCHANGED resp
    /\ UNCHANGED <<users, wallet, transactions, referrals, commissions,
                   memberships, payments, missions, completions,
                   withdrawals, now, referred_via>>

commit_mpesa_callback(s) ==
    /\ inflight[s].op = "mpesa_callback"
    /\ LET r == inflight[s]
       IN  IF r.result_code = 0
           THEN /\ payments' = [payments EXCEPT
                        ![r.reference].status = "completed",
                        ![r.reference].completed_at = r.completed_at]
                /\ memberships' = Append(memberships,
                        Membership(r.user, r.tier, r.reference, now))
                /\ Respond(200, "success")
           ELSE /\ payments' = [payments EXCEPT ![r.reference].status = "failed"]
                /\ UNCHANGED memberships
                /\ Respond(200, "failure")
    /\ inflight' = [inflight EXCEPT ![s] = Idle]
    /\ UNCHANGED <<users, wallet, transactions, referrals, commissions,
                   missions, completions, withdrawals, now, referred_via>>

\* A state SpecPay reaches (see ConcPayUnreached): user 1 registered and
\* started MaxPayments purchases, none of them answered yet.
InitConcPay ==
    \E tiers \in [1..MaxPayments -> TierNames] :
    /\ users = {1}
    /\ wallet = [u \in {1} |->
                    [balance |-> 0, total_earned |-> 0, total_withdrawn |-> 0]]
    /\ transactions = <<>>
    /\ referrals = <<>>
    /\ commissions = <<>>
    /\ memberships = <<>>
    /\ payments = [i \in 1..MaxPayments |->
                    [user_id |-> 1, amount |-> MembershipTier[tiers[i]].price,
                     tier |-> tiers[i], status |-> "pending",
                     completed_at |-> None]]
    /\ missions = <<>>
    /\ completions = <<>>
    /\ withdrawals = <<>>
    /\ now = 0
    /\ resp = [code |-> 200, msg |-> "Please complete the payment"]
    /\ referred_via = [u \in {1} |-> None]
    /\ inflight = [s \in Slots |-> Idle]

NextConcPay ==
    \/ \E s \in Slots, ref \in 1..(MaxPayments + 1), rc \in {0, 1} :
            begin_mpesa_callback(s, ref, rc)
    \/ \E s \in Slots : commit_mpesa_callback(s)

SpecConcPay == InitConcPay /\ [][NextConcPay]_vars

(***************************************************************************)
(* Every sequential operation together, from the initial states of         *)
(* SpecRef: registrations, purchases, missions and withdrawals with the    *)
(* inputs that succeed, and payment results of either kind.                *)
(***************************************************************************)
NextAll ==
    \/ \E code \in users \cup {None} :
            Cardinality(users) < MaxUsers /\ register(code)
    \/ \E u \in users, tier \in TierNames : initialize_payment(u, tier, TRUE)
    \/ \E ref \in DOMAIN payments, rc \in {0, 1} : mpesa_callback(ref, rc)
    \/ \E d \in Durations :
            Len(missions) < MaxLedgerMissions /\ create_mission(2, "ad", d, TRUE)
    \/ \E u \in users, m \in DOMAIN missions :
            complete_mission(u, m, Proof("json", 9, FALSE, 0))
    \/ \E u \in users : request_withdrawal(u, 2, "mpesa")
    \/ \E w \in DOMAIN withdrawals, st \in {"completed", "failed"} :
            process_withdrawal(w, st)
    \/ Lapse

SpecAll == InitRef /\ [][NextAll]_vars

(***************************************************************************)
(* Reachability of the seeded initial states.                              *)
(***************************************************************************)
\* Violated under SpecPay: Init is a state the payment flow reaches.
InitUnreached == ~Init

\* Violated under SpecPay: InitRef is a state the payment flow reaches.
InitRefUnreached == ~InitRef

\* Violated under SpecPay: InitConcPay is a state the payment flow reaches.
ConcPayUnreached == ~InitConcPay

\* Violated under SpecMission: InitConc is a state the mission flow reaches.
ConcUnreached == ~InitConc

(***************************************************************************)
(* Properties                                                              *)
(***************************************************************************)
Terminal == {"completed", "failed"}

\* The sum of the amounts of the ledger rows of wallet u of the given type
RECURSIVE LedgerSum(_, _, _)
LedgerSum(txns, u, type) ==
    IF txns = <<>> THEN 0
    ELSE (IF Head(txns).wallet_id = u /\ Head(txns).type = type
          THEN Head(txns).amount ELSE 0) + LedgerSum(Tail(txns), u, type)

\* C1: every wallet's balance is >= 0 in every reachable state, the rewards
\* set by the admin's create_mission / update_mission included.
C1_BalanceNonNegative == \A u \in users : wallet[u].balance >= 0

\* C2: a successful mpesa_callback of a pending payment for a purchaser who
\* registered with a referral code credits the direct (level 1) referrer's wallet with
\* floor(tier.price * 10 / 100) and appends one ReferralCommission row.
C2_CommissionPaid ==
    [][\A ref \in DOMAIN payments :
        (mpesa_callback(ref, 0) /\ resp'.code = 200
            /\ payments[ref].status = "pending"
            /\ referred_via[payments[ref].user_id] # None)
        => LET referrer == referred_via[payments[ref].user_id]
               price == MembershipTier[payments[ref].tier].price
           IN  /\ wallet'[referrer].balance = wallet[referrer].balance
                    + (price * REFERRAL_COMMISSION_RATES[1]) \div 100
               /\ Len(commissions') = Len(commissions) + 1]_vars

\* C3: the first successful delivery of a pending payment's result adds
\* exactly one credit row on the wallet of the purchaser's referrer and one
\* commission row; a further successful delivery for the same reference (the
\* payment is already completed) adds no credit and no commission row.
C3_CreditedExactlyOnce ==
    [][\A ref \in DOMAIN payments :
        (mpesa_callback(ref, 0) /\ referred_via[payments[ref].user_id] # None)
        => LET referrer == referred_via[payments[ref].user_id]
               credits(t) == {i \in DOMAIN t : t[i].wallet_id = referrer
                                               /\ t[i].type = "credit"}
           IN  /\ payments[ref].status = "pending" =>
                    /\ Cardinality(credits(transactions'))
                           = Cardinality(credits(transactions)) + 1
                    /\ Len(commissions') = Len(commissions) + 1
               /\ payments[ref].status = "completed" =>
                    /\ transactions' = transactions
                    /\ commissions' = commissions
                    /\ wallet' = wallet]_vars

\* C4: process_withdrawal on a withdrawal that is completed or failed changes
\* neither the withdrawal (status, processed_at) nor any wallet, whatever
\* status is requested.
C4_TerminalIsFinal ==
    [][\A w \in DOMAIN withdrawals, st \in {"pending", "completed", "failed"} :
        (withdrawals[w].status \in Terminal /\ process_withdrawal(w, st))
        => (withdrawals' = withdrawals /\ wallet' = wallet)]_vars

\* C5: a successful request of amount a debits the balance by a and creates
\* the pending withdrawal of amount a; resolving that withdrawal as failed
\* adds its amount back to the balance, appends exactly one credit row of
\* that amount (the ledger before it is kept) and leaves total_withdrawn
\* and the other wallets alone: the pair returns the balance to its value
\* before the request.
C5_RefundRoundTrip ==
    [][/\ \A u \in users, a \in Amounts, meth \in Methods :
            (request_withdrawal(u, a, meth) /\ resp'.code = 201)
            => /\ wallet'[u].balance = wallet[u].balance - a
               /\ wallet'[u].total_withdrawn = wallet[u].total_withdrawn
               /\ withdrawals' = Append(withdrawals,
                     [user_id |-> u, amount |-> a, status |-> "pending",
                      processed_at |-> None])
       /\ \A w \in DOMAIN withdrawals :
            (withdrawals[w].status = "pending" /\ process_withdrawal(w, "failed"))
            => LET u == withdrawals[w].user_id
                   a == withdrawals[w].amount
               IN  /\ wallet'[u].balance = wallet[u].balance + a
                   /\ wallet'[u].total_withdrawn = wallet[u].total_withdrawn
                   /\ \A v \in users \ {u} : wallet'[v] = wallet[v]
                   /\ Len(transactions') = Len(transactions) + 1
                   /\ SubSeq(transactions', 1, Len(transactions)) = transactions
                   /\ transactions'[Len(transactions')] =
                        [wallet_id |-> u, amount |-> a, type |-> "credit",
                         description |-> "Refund for failed withdrawal"]
                   /\ withdrawals'[w].status = "failed"]_vars

\* C5 witness: a withdrawal of user 1 was requested and resolved as failed,
\* the refund is the last ledger row and the balance is back at the reward.
C5_Witness ==
    /\ Len(transactions) = 3
    /\ transactions[2].type = "debit"
    /\ transactions[3].description = "Refund for failed withdrawal"
    /\ \E w \in DOMAIN withdrawals :
            withdrawals[w].status = "failed" /\ withdrawals[w].user_id = 1
    /\ wallet[1].balance = 2
    /\ wallet[1].total_withdrawn = 0

\* C6: resolving a pending withdrawal as completed adds its amount to the
\* owner's total_withdrawn.
C6_CompletedCounts ==
    [][\A w \in DOMAIN withdrawals :
        (withdrawals[w].status = "pending" /\ process_withdrawal(w, "completed"))
        => LET u == withdrawals[w].user_id
           IN  wallet'[u].total_withdrawn
                   = wallet[u].total_withdrawn + withdrawals[w].amount]_vars

\* C7: a withdrawal request for more than the balance is rejected as
\* insufficient and changes no wallet, no ledger row and no withdrawal.
C7_InsufficientRejected ==
    [][\A u \in users, a \in Amounts, meth \in valid_methods :
        (a > 0 /\ a > wallet[u].balance /\ request_withdrawal(u, a, meth))
        => /\ resp'.code = 400
           /\ resp'.msg \in {"Insufficient balance", "Insufficient funds"}
           /\ wallet' = wallet
           /\ transactions' = transactions
           /\ withdrawals' = withdrawals]_vars

\* C7 witness: a request was rejected as insufficient on a wallet that holds
\* funds.
C7_Witness ==
    /\ resp = [code |-> 400, msg |-> "Insufficient balance"]
    /\ wallet[1].balance = 1

\* C8: in every interleaving of concurrent complete_mission requests the
\* completions a member has for the current day never exceed
\* tier.daily_missions.
C8_QuotaUnderConcurrency ==
    \A u \in users :
        LET m == membership_of(memberships, u)
        IN  m # None =>
                Cardinality(completed_on(completions, u, now))
                    <= MembershipTier[memberships[m].tier].daily_missions

\* C9: concurrent requests on one wallet lose no update: the balance is the
\* sum of the wallet's credits minus the sum of its debits, and the debits
\* accepted never exceed the credits received.
C9_Serialized ==
    \A u \in users :
        /\ wallet[u].balance = LedgerSum(transactions, u, "credit")
                                - LedgerSum(transactions, u, "debit")
        /\ LedgerSum(transactions, u, "debit")
                <= LedgerSum(transactions, u, "credit")

\* C10: for a member whose tier has daily_missions = N, a complete_mission
\* call on an active mission not yet completed today, with a valid proof,
\* succeeds (one completion, the reward credited) while fewer than N
\* completions exist for the day, and otherwise fails with the daily-limit
\* error and changes nothing; so the completions of one day never exceed N.
C10_DailyQuota ==
    /\ [][\A u \in users, i \in DOMAIN missions, p \in Proofs :
            LET m == membership_of(memberships, u)
                N == MembershipTier[memberships[m].tier].daily_missions
                done == completed_on(completions, u, now)
            IN  (/\ m # None
                 /\ memberships[m].is_active /\ now <= memberships[m].end_date
                 /\ missions[i].is_active
                 /\ \A c \in done : completions[c].mission_id # i
                 /\ validate_mission_completion(missions[i], p)
                 /\ complete_mission(u, i, p))
                => IF Cardinality(done) < N
                   THEN /\ resp'.code = 200
                        /\ Len(completions') = Len(completions) + 1
                        /\ wallet'[u].balance
                               = wallet[u].balance + missions[i].reward
                   ELSE /\ resp' = [code |-> 400,
                                    msg |-> "Daily mission limit reached"]
                        /\ completions' = completions
                        /\ wallet' = wallet
                        /\ transactions' = transactions]_vars
    /\ [](\A u \in users :
            LET m == membership_of(memberships, u)
            IN  m # None =>
                    Cardinality(completed_on(completions, u, now))
                        <= MembershipTier[memberships[m].tier].daily_missions)

\* C10 witness: the member of tier duo (N = 2) completed two missions today
\* and the call on a third was refused with the daily-limit error.
C10_Witness ==
    /\ memberships[1].tier = "duo"
    /\ Cardinality(completed_on(completions, 1, now)) = 2
    /\ Len(missions) = 3
    /\ resp = [code |-> 400, msg |-> "Daily mission limit reached"]

\* The referral depth of the tier of user u's membership, None without one
referral_depth(u) ==
    LET m == membership_of(memberships, u)
    IN  IF m = None THEN None
        ELSE MembershipTier[memberships[m].tier].referral_levels

C13_DirectEdge ==
    [][\A code \in users :
        register(code)
        => LET new_user == Cardinality(users) + 1
               direct(refs) == {i \in DOMAIN refs :
                                   /\ refs[i].level = 1
                                   /\ refs[i].referrer_id = code
                                   /\ refs[i].referred_id = new_user}
           IN  /\ Cardinality(direct(referrals')) = 1
               /\ direct(referrals) = {}]_vars

C15_EdgesOnlyAtRegistration ==
    [][/\ Len(referrals') >= Len(referrals)
       /\ SubSeq(referrals', 1, Len(referrals)) = referrals
       /\ referrals' # referrals => \E code \in users : register(code)]_vars

\* C15 witness: after user 2 registered with the code of user 1, user 2
\* bought a membership, completed a mission and had a withdrawal resolved;
\* the level-1 edge of its registration is still the only row.
C15_Witness ==
    /\ users = {1, 2}
    /\ referred_via[2] = 1
    /\ referrals = <<Referral(1, None, 1)>>
    /\ membership_of(memberships, 2) # None
    /\ \E c \in DOMAIN completions : completions[c].user_id = 2
    /\ \E w \in DOMAIN withdrawals :
            withdrawals[w].user_id = 2 /\ withdrawals[w].status \in Terminal

\* C16: a successful payment result for a user who already has a membership
\* answers 200, marks the payment completed and overwrites that membership
\* in place: the purchased tier, start = now, end = now + 365 days, active,
\* payment_id = the reference.
C16_RenewalOverwrites ==
    [][\A ref \in DOMAIN payments :
        (/\ membership_of(memberships, payments[ref].user_id) # None
         /\ mpesa_callback(ref, 0))
        => LET m == membership_of(memberships, payments[ref].user_id)
           IN  /\ resp'.code = 200
               /\ payments'[ref].status = "completed"
               /\ memberships' = [memberships EXCEPT ![m] =
                    [user_id |-> payments[ref].user_id,
                     tier |-> payments[ref].tier,
                     start_date |-> now,
                     end_date |-> now + MembershipDays,
                     is_active |-> TRUE,
                     payment_id |-> ref]]]_vars

\* C17: a second successful result for a reference whose payment is already
\* completed answers 200 and leaves the payment and the memberships as the
\* first delivery left them.
C17_CallbackIdempotent ==
    [][\A ref \in DOMAIN payments :
        (payments[ref].status = "completed" /\ mpesa_callback(ref, 0))
        => /\ resp'.code = 200
           /\ payments' = payments
           /\ memberships' = memberships]_vars

\* C18: a failed payment result sets the payment's status to failed and
\* changes nothing else: no other payment field, no membership, wallet,
\* ledger row, referral or commission, whatever the payment's status was.
C18_FailureOnlyMarks ==
    [][\A ref \in DOMAIN payments :
        mpesa_callback(ref, 1)
        => /\ payments' = [payments EXCEPT ![ref].status = "failed"]
           /\ memberships' = memberships
           /\ wallet' = wallet
           /\ transactions' = transactions
           /\ referrals' = referrals
           /\ commissions' = commissions]_vars

\* C18 witness: a failed result arrived for a payment that had completed;
\* the membership bought with it is still there and active.
C18_Witness ==
    \E ref \in DOMAIN payments :
        /\ payments[ref].status = "failed"
        /\ payments[ref].completed_at # None
        /\ \E m \in DOMAIN memberships :
                memberships[m].payment_id = ref /\ memberships[m].is_active
        /\ resp = [code |-> 200, msg |-> "failure"]

\* C19: every user has at most one Membership row, concurrent successful
\* payment results for the same user included.
C19_OneMembershipPerUser ==
    \A u \in users :
        Cardinality({m \in DOMAIN memberships : memberships[m].user_id = u}) <= 1

\* C20: complete_mission by a user whose membership is missing, inactive or
\* expired (now > end_date) answers 403 "Active membership required" and
\* creates no completion and no wallet credit; it succeeds only with a
\* usable membership.
C20_MembershipRequired ==
    [][\A u \in users, i \in 1..MaxMissions, p \in Proofs :
        complete_mission(u, i, p)
        => LET m == membership_of(memberships, u)
               usable == /\ m # None
                         /\ memberships[m].is_active
                         /\ now <= memberships[m].end_date
           IN  /\ ~usable =>
                    /\ resp' = [code |-> 403,
                                msg |-> "Active membership required"]
                    /\ completions' = completions
                    /\ wallet' = wallet
                    /\ transactions' = transactions
               /\ resp'.code = 200 => usable]_vars

\* C20 witness: the member completed a mission while the membership ran, the
\* membership has expired since, and the last call was refused for lack of a
\* usable membership.
C20_Witness ==
    /\ is_expired(memberships[1], now)
    /\ \E c \in DOMAIN completions : completions[c].user_id = 1
    /\ resp = [code |-> 403, msg |-> "Active membership required"]

\* C21: User.get_available_missions returns the empty list unless the user's
\* membership is usable (active and not expired); otherwise every mission it
\* returns is active and not completed by the user today, and it returns at
\* most daily_limit - completed_today of them.
C21_AvailableMissions ==
    \A u \in users :
        \A r \in get_available_missions(memberships, missions, completions,
                                        now, u) :
            LET m == membership_of(memberships, u)
                usable == /\ m # None
                          /\ memberships[m].is_active
                          /\ now <= memberships[m].end_date
                done == completed_on(completions, u, now)
            IN  /\ ~usable => r = {}
                /\ \A i \in r :
                      /\ missions[i].is_active
                      /\ \A c \in done : completions[c].mission_id # i
                /\ usable =>
                      Cardinality(r) + Cardinality(done)
                          <= MembershipTier[memberships[m].tier].daily_missions

\* C22: under sequential complete_mission there is at most one
\* MissionCompletion per (user, mission, calendar day), and a completion of
\* a mission the user already completed today answers 400 "Mission already
\* completed today" and credits nothing.
C22_OncePerDay ==
    /\ [](\A c, d \in DOMAIN completions :
            (/\ completions[c].user_id = completions[d].user_id
             /\ completions[c].mission_id = completions[d].mission_id
             /\ completions[c].completed_at = completions[d].completed_at)
            => c = d)
    /\ [][\A u \in users, i \in 1..MaxMissions, p \in Proofs :
            (/\ complete_mission(u, i, p)
             /\ \E c \in DOMAIN completions :
                    /\ completions[c].user_id = u
                    /\ completions[c].mission_id = i
                    /\ completions[c].completed_at = now
             /\ resp'.code \notin {403, 404})
            => /\ resp' = [code |-> 400,
                           msg |-> "Mission already completed today"]
               /\ completions' = completions
               /\ wallet' = wallet
               /\ transactions' = transactions]_vars

\* C22 witness: a mission was completed today and the last call, for the
\* same mission, was refused as already completed.
C22_Witness ==
    /\ resp = [code |-> 400, msg |-> "Mission already completed today"]
    /\ \E c \in DOMAIN completions : completions[c].completed_at = now

\* C23: for an 'ad' mission the proof is accepted exactly when it parses and
\* its duration d is at least nine tenths of mission.duration, rounded up to
\* whole seconds: for duration 30, 25 is rejected and 28 accepted; an empty
\* or unparseable proof is rejected.  complete_mission, once its other
\* checks pass, succeeds or fails with the invalid-proof error accordingly.
C23_AdThreshold ==
    /\ [](/\ \A D \in ValidatedDurations, p \in ProofInputs :
               validate_mission_completion(
                   [reward |-> 1, type |-> "ad", duration |-> D,
                    is_active |-> TRUE], p)
               <=> /\ p.text = "json"
                   /\ p.duration >= (9 * D + 9) \div 10
          /\ \A i \in DOMAIN missions :
               missions[i].type = "ad" /\ missions[i].duration = 30
               => /\ ~validate_mission_completion(missions[i],
                                                  Proof("json", 25, FALSE, 0))
                  /\ validate_mission_completion(missions[i],
                                                 Proof("json", 28, FALSE, 0))
                  /\ ~validate_mission_completion(missions[i],
                                                  Proof("empty", 0, FALSE, 0))
                  /\ ~validate_mission_completion(missions[i],
                                                  Proof("garbage", 0, FALSE, 0)))
    /\ [][\A u \in users, i \in 1..MaxProofMissions, p \in ProofInputs :
            (/\ complete_mission(u, i, p)
             /\ i \in DOMAIN missions
             /\ missions[i].type = "ad"
             /\ resp'.msg \in {"Invalid mission completion proof",
                               "Mission completed successfully"})
            => (resp'.code = 200
                <=> /\ p.text = "json"
                    /\ p.duration >= (9 * missions[i].duration + 9) \div 10)]_vars

\* C23 witness: an 'ad' mission of duration 30 was completed, and the last
\* call was refused for its proof.
C23_Witness ==
    /\ resp = [code |-> 400, msg |-> "Invalid mission completion proof"]
    /\ \E c \in DOMAIN completions :
            /\ missions[completions[c].mission_id].type = "ad"
            /\ missions[completions[c].mission_id].duration = 30

\* C24: for a mission whose type is none of 'ad', 'social', 'survey', every
\* submitted proof validates, an absent or empty one included, so
\* complete_mission never answers "Invalid mission completion proof".
C24_DefaultAccepts ==
    [][\A u \in users, i \in 1..MaxProofMissions, p \in ProofInputs :
        (/\ complete_mission(u, i, p)
         /\ i \in DOMAIN missions
         /\ missions[i].type \notin {"ad", "social", "survey"})
        => resp'.msg # "Invalid mission completion proof"]_vars

\* C25: every WalletTransaction in the ledger has amount > 0, whichever
\* path appended it (mission reward, withdrawal debit, refund).
C25_PositiveAmounts ==
    \A t \in DOMAIN transactions : transactions[t].amount > 0

\* C26: a successful complete_mission appends one MissionCompletion whose
\* reward is the mission's reward at that time and credits the wallet with
\* that amount in one ledger row; update_mission changes no completion, no
\* wallet and no ledger row.
C26_RewardSnapshot ==
    [][/\ \A u \in users, i \in 1..MaxLedgerMissions, p \in LedgerProofs :
            (complete_mission(u, i, p) /\ resp'.code = 200)
            => /\ completions' = Append(completions,
                     [user_id |-> u, mission_id |-> i,
                      reward |-> missions[i].reward, completed_at |-> now])
               /\ wallet'[u].balance = wallet[u].balance + missions[i].reward
               /\ Len(transactions') = Len(transactions) + 1
               /\ transactions'[Len(transactions')].amount = missions[i].reward
               /\ transactions'[Len(transactions')].wallet_id = u
       /\ \A m \in 1..MaxLedgerMissions, r \in Rewards, a \in BOOLEAN :
            update_mission(m, r, a)
            => /\ completions' = completions
               /\ wallet' = wallet
               /\ transactions' = transactions]_vars

\* C26 witness: a completion whose mission has a different reward now.
C26_Witness ==
    \E c \in DOMAIN completions :
        completions[c].reward # missions[completions[c].mission_id].reward

\* C27: after any sequence of completions, withdrawal requests and
\* resolutions each wallet's balance is its credits minus its debits, its
\* total_earned is its credits, and every step keeps the ledger rows it
\* found.
C27_LedgerMatchesBalance ==
    /\ [](\A u \in users :
            /\ wallet[u].balance + LedgerSum(transactions, u, "debit")
                   = LedgerSum(transactions, u, "credit")
            /\ wallet[u].total_earned = LedgerSum(transactions, u, "credit"))
    /\ [][/\ Len(transactions') >= Len(transactions)
          /\ SubSeq(transactions', 1, Len(transactions)) = transactions]_vars

\* C27 witness: user 1 earned a reward and withdrew all of it.
C27_Witness ==
    /\ wallet[1].balance = 0
    /\ wallet[1].total_earned = 2
    /\ \E t \in DOMAIN transactions :
            transactions[t].wallet_id = 1 /\ transactions[t].type = "debit"

\* The k-th user above u on the chain of direct referrers (u itself for
\* k = 0), or None where the chain has ended.
RECURSIVE referrer_chain(_, _)
referrer_chain(u, k) ==
    IF k = 0 THEN u
    ELSE LET below == referrer_chain(u, k - 1)
         IN  IF below = None THEN None ELSE referred_via[below]

\* C28: registering with the code of referrer R, the ancestor of level L
\* (2..5) is the user L - 1 direct referrers above R: every level-L edge the
\* registration adds has that user as its referrer, and that user gets its
\* edge when its membership reaches level L.
C28_WalkFollowsDirectChain ==
    [][\A code \in users :
        register(code)
        => \A L \in 2..5 :
             LET ancestor == referrer_chain(code, L - 1)
                 added == {i \in DOMAIN referrals' :
                             i > Len(referrals) /\ referrals'[i].level = L}
             IN  /\ \A i \in added : referrals'[i].referrer_id = ancestor
                 /\ (/\ ancestor # None
                     /\ referral_depth(ancestor) # None
                     /\ referral_depth(ancestor) >= L)
                    => added # {}]_vars

\* C29: a withdrawal that was resolved before (processed_at is set: it was
\* marked completed, or marked failed and refunded) gets no refund from any
\* later process_withdrawal, so a withdrawal is refunded at most once and
\* never after it was completed.
C29_RefundAtMostOnce ==
    [][\A w \in DOMAIN withdrawals, st \in {"pending", "completed", "failed"} :
        (withdrawals[w].processed_at # None /\ process_withdrawal(w, st))
        => (transactions' = transactions /\ wallet' = wallet)]_vars

\* C30: a completed payment stays completed under every later callback, and
\* the payment a membership refers to is completed.
C30_PaymentMonotone ==
    /\ [](\A m \in DOMAIN memberships :
            payments[memberships[m].payment_id].status = "completed")
    /\ [][\A ref \in DOMAIN payments :
            payments[ref].status = "completed"
            => payments'[ref].status = "completed"]_vars

=============================================================================
